---- MODULE Spec2Model ----
(***************************************************************************)
(* Arc Flash Studio: the EquipmentInput record, the ArcFlashCalculator     *)
(* engine and the detailed-trace endpoint, as a state machine.             *)
(*                                                                         *)
(* Numbers.  The program computes in Python floats.  Here a float is a     *)
(* decimal floating-point value [m, e] = m * 10^e with a four digit        *)
(* mantissa (1000 <= m <= 9999, or m = 0), rounded to nearest after each   *)
(* operation; a logarithm is a fixed-point integer counted in 1/10000.     *)
(* Inputs are integers in fixed units: volts, centiamperes, hundredths of  *)
(* an inch, millimetres, and 1/10000 second.                               *)
(***************************************************************************)
EXTENDS Integers, Sequences, FiniteSets

(* ------------------------------------------------------------------ *)
(* Decimal floating point                                             *)
(* ------------------------------------------------------------------ *)

\* Smallest normalised mantissa: four significant digits.
MantMin == 1000

\* One unit of a logarithm is 1 / LogUnit.
LogUnit == 10000

Zero == [m |-> 0, e |-> 0]

RECURSIVE Digits(_)
Digits(n) == IF n < 10 THEN 1 ELSE 1 + Digits(n \div 10)

\* n * 10^e for a natural n, rounded to four significant digits.
Norm(n, e) ==
    IF n = 0 THEN Zero
    ELSE IF n < MantMin
         THEN LET k == 4 - Digits(n) IN [m |-> n * 10^k, e |-> e - k]
    ELSE LET k == Digits(n) - 4
             q == (n + (10^k) \div 2) \div (10^k)
         IN  IF k = 0 THEN [m |-> n, e |-> e]
             ELSE IF q = 10 * MantMin THEN [m |-> MantMin, e |-> e + k + 1]
             ELSE [m |-> q, e |-> e + k]

FMul(a, b) == Norm(a.m * b.m, a.e + b.e)

\* b.m # 0: the callers raise ZeroDivisionError before dividing by zero.
FDiv(a, b) == Norm((a.m * 100000) \div b.m, a.e - b.e - 5)

FLt(a, b) ==
    IF b.m = 0 THEN FALSE
    ELSE IF a.m = 0 THEN TRUE
    ELSE a.e < b.e \/ (a.e = b.e /\ a.m < b.m)

FLe(a, b) == a = b \/ FLt(a, b)

RECURSIVE IsqrtIter(_, _, _)
IsqrtIter(n, lo, hi) ==
    IF lo >= hi THEN lo
    ELSE LET mid == (lo + hi + 1) \div 2
         IN  IF mid * mid <= n THEN IsqrtIter(n, mid, hi)
             ELSE IsqrtIter(n, lo, mid - 1)

\* math.sqrt of a non-negative float, rounded to nearest.
FSqrt(a) ==
    IF a.m = 0 THEN Zero
    ELSE LET even == a.e % 2 = 0
             n    == IF even THEN a.m * 10000 ELSE a.m * 1000
             s    == IsqrtIter(n, 1, 10000)
             r    == IF n - s * s > s THEN s + 1 ELSE s
         IN  Norm(r, IF even THEN (a.e - 4) \div 2 ELSE (a.e - 3) \div 2)

\* Mutant: the digits after the nd-th decimal are cut off instead of rounded.
FRound_truncate(x, nd) ==
    LET k == 0 - nd - x.e
    IN  IF x.m = 0 \/ k <= 0 THEN x
        ELSE IF k > 4 THEN Zero
        ELSE Norm(x.m \div 10^k, 0 - nd)

\* round(x, nd): to nd decimals, ties to the even neighbour.
FRound(x, nd) ==
    LET k == 0 - nd - x.e
    IN  IF x.m = 0 \/ k <= 0 THEN x
        ELSE IF k > 4 THEN Zero
        ELSE LET p == 10^k
                 q == x.m \div p
                 r == x.m % p
                 up == 2 * r > p \/ (2 * r = p /\ q % 2 = 1)
             IN  Norm(IF up THEN q + 1 ELSE q, 0 - nd)

(* ------------------------------------------------------------------ *)
(* Base-10 logarithm and exponential, digit by digit                  *)
(* ------------------------------------------------------------------ *)

\* 10^(k/10), 10^(k/100), 10^(k/1000), 10^(k/10000) for k = 0..9, times 10000.
PowTable ==
    << <<10000, 12589, 15849, 19953, 25119, 31623, 39811, 50119, 63096, 79433>>,
       <<10000, 10233, 10471, 10715, 10965, 11220, 11482, 11749, 12023, 12303>>,
       <<10000, 10023, 10046, 10069, 10093, 10116, 10139, 10162, 10186, 10209>>,
       <<10000, 10002, 10005, 10007, 10009, 10012, 10014, 10016, 10018, 10021>> >>

\* The largest digit k with PowTable[i][k+1] <= y.
LogDigit(i, y) ==
    CHOOSE k \in 0..9 :
        /\ PowTable[i][k + 1] <= y
        /\ (k = 9 \/ PowTable[i][k + 2] > y)

RECURSIVE LogMant(_, _)
\* log10(y / 10000) for 10000 <= y < 100000, digits i..4, in units of 1/LogUnit.
LogMant(i, y) ==
    IF i > 4 THEN 0
    ELSE LET k == LogDigit(i, y)
         IN  k * 10^(4 - i) + LogMant(i + 1, (y * 10000) \div PowTable[i][k + 1])

\* math.log10 of a positive float, in units of 1/LogUnit.
Log10(x) == (x.e + 3) * LogUnit + LogMant(1, x.m * 10)

\* 10 ** lg for a logarithm lg in units of 1/LogUnit.
Pow10(lg) ==
    LET e  == lg \div LogUnit
        f  == lg % LogUnit
        y1 == PowTable[1][(f \div 1000) + 1]
        y2 == (y1 * PowTable[2][((f \div 100) % 10) + 1]) \div 10000
        y3 == (y2 * PowTable[3][((f \div 10) % 10) + 1]) \div 10000
        y4 == (y3 * PowTable[4][(f % 10) + 1]) \div 10000
    IN  Norm(y4, e - 4)

\* (a * b) / d rounded to nearest, for fixed-point products.
RoundDiv(n, d) == (2 * n + d) \div (2 * d)

\* The product of two logarithm-scaled numbers, a >= 0, without overflow.
MulFix(a, b) == (a \div LogUnit) * b + RoundDiv((a % LogUnit) * b, LogUnit)

(* ------------------------------------------------------------------ *)
(* Data model: EquipmentInput                                         *)
(* ------------------------------------------------------------------ *)

EnclosureType == {"VCB", "VCBB", "HCB", "VOA", "HOA"}

GroundingType == {"solidly_grounded", "ungrounded", "impedance_grounded"}

\* Field(le=...) upper limits, in the units of the model.
NameMaxLength == 100
VoltageMax == 15000
VoltageMin == 208
BoltedFaultCurrentMax == 10600000
WorkingDistanceMax == 12000
ElectrodeGapMax == 200
FaultClearingTimeMax == 20000

None == [none |-> TRUE]

\* Mutant: the voltage validator lets every value through.
validate_voltage_range_absent(v) == TRUE

\* @field_validator('voltage'): raises ValueError below 208 V.
validate_voltage_range(v) == v >= VoltageMin

\* The fields of raw keyword arguments that fail validation.
ValidationErrors(raw) ==
    {f \in DOMAIN raw :
        \/ f = "name" /\ ~(Len(raw.name) >= 1 /\ Len(raw.name) <= NameMaxLength)
        \/ f = "voltage" /\ ~(raw.voltage > 0 /\ raw.voltage <= VoltageMax
                                /\ validate_voltage_range(raw.voltage))
        \/ f = "bolted_fault_current"
              /\ ~(raw.bolted_fault_current > 0
                     /\ raw.bolted_fault_current <= BoltedFaultCurrentMax)
        \/ f = "working_distance"
              /\ ~(raw.working_distance > 0 /\ raw.working_distance <= WorkingDistanceMax)
        \/ f = "enclosure_type" /\ raw.enclosure_type \notin EnclosureType
        \/ f = "electrode_gap"
              /\ ~(raw.electrode_gap > 0 /\ raw.electrode_gap <= ElectrodeGapMax)
        \/ f = "fault_clearing_time"
              /\ ~(raw.fault_clearing_time > 0
                     /\ raw.fault_clearing_time <= FaultClearingTimeMax)
        \/ f = "grounding" /\ raw.grounding \notin GroundingType}

\* The floats the engine reads from the record.
Amperes(e) == Norm(e.bolted_fault_current, -2)
Inches(e) == Norm(e.working_distance, -2)
Seconds(e) == Norm(e.fault_clearing_time, -4)

(* ------------------------------------------------------------------ *)
(* State                                                              *)
(* ------------------------------------------------------------------ *)

VARIABLES
    enclosure_factors,  \* the ENCLOSURE_FACTORS dict of the calculator class
    equipment,   \* the EquipmentInput instance the caller holds, or None
    assigns,     \* attribute assignments made to that instance
    last,        \* the latest call: [op, request, response], or None
    prev,        \* the engine call before it whose response the caller kept, or None
    first        \* the first call of calculate made with the instance, or None

vars == <<enclosure_factors, equipment, assigns, last, prev, first>>

(* ------------------------------------------------------------------ *)
(* ArcFlashCalculator                                                 *)
(* ------------------------------------------------------------------ *)

\* Mutant: the HOA entry carries the HCB factor.
ENCLOSURE_FACTORS_hoa ==
    [t \in EnclosureType |->
        CASE t = "VCBB" -> Norm(973, -3)
          [] t \in {"HCB", "HOA"} -> Norm(1056, -3)
          [] OTHER      -> Norm(1000, -3)]

ENCLOSURE_FACTORS ==
    [t \in EnclosureType |->
        CASE t = "VCBB" -> Norm(973, -3)
          [] t = "HCB"  -> Norm(1056, -3)
          [] OTHER      -> Norm(1000, -3)]

\* Mutant: an ungrounded system takes the open-air K whatever the enclosure.
KConstant_grounding(e) ==
    IF e.enclosure_type \in {"VCB", "VCBB", "HCB"} /\ e.grounding # "ungrounded"
    THEN -1530 ELSE -970

\* K of the arcing-current equation, in units of 1/LogUnit.
KConstant(e) ==
    IF e.enclosure_type \in {"VCB", "VCBB", "HCB"} THEN -1530 ELSE -970

\* lg(Ia), in units of 1/LogUnit; bolted_fault_current > 0.
lg_ia(e) ==
    LET lg_ibf == Log10(Amperes(e))
    IN  KConstant(e)
        + RoundDiv(662 * lg_ibf, 1000)
        + RoundDiv(966 * e.voltage, 1000)
        + RoundDiv(526 * e.electrode_gap, 100)
        + MulFix(RoundDiv(5588 * e.voltage, 1000), lg_ibf)
        - MulFix(RoundDiv(304 * e.electrode_gap, 10), lg_ibf)

calculate_arcing_current(e) == Pow10(lg_ia(e))

\* Mutant: the energy is divided by the clearing time instead of multiplied.
calculate_incident_energy_per_second(e, arcing_current) ==
    LET cf == enclosure_factors[e.enclosure_type]
        d  == Inches(e)
        numerator   == FDiv(FMul(FMul(Norm(4184, -3), cf), arcing_current), Seconds(e))
        denominator == FMul(FMul(Norm(4, 0), Norm(3142, -3)), FMul(d, d))
    IN  FDiv(numerator, denominator)

calculate_incident_energy(e, arcing_current) ==
    LET cf == enclosure_factors[e.enclosure_type]
        d  == Inches(e)
        numerator   == FMul(FMul(FMul(Norm(4184, -3), cf), arcing_current), Seconds(e))
        denominator == FMul(FMul(Norm(4, 0), Norm(3142, -3)), FMul(d, d))
    IN  FDiv(numerator, denominator)

\* Mutant: each threshold belongs to the band below it.
determine_ppe_category_inclusive(incident_energy) ==
    IF FLe(incident_energy, Norm(12, -1)) THEN 0
    ELSE IF FLe(incident_energy, Norm(4, 0)) THEN 1
    ELSE IF FLe(incident_energy, Norm(8, 0)) THEN 2
    ELSE IF FLe(incident_energy, Norm(25, 0)) THEN 3
    ELSE 4

\* Mutant: the thresholds 4 and 8 are tested in the wrong order.
determine_ppe_category_swapped(incident_energy) ==
    IF FLt(incident_energy, Norm(12, -1)) THEN 0
    ELSE IF FLt(incident_energy, Norm(8, 0)) THEN 1
    ELSE IF FLt(incident_energy, Norm(4, 0)) THEN 2
    ELSE IF FLt(incident_energy, Norm(25, 0)) THEN 3
    ELSE 4

determine_ppe_category(incident_energy) ==
    IF FLt(incident_energy, Norm(12, -1)) THEN 0
    ELSE IF FLt(incident_energy, Norm(4, 0)) THEN 1
    ELSE IF FLt(incident_energy, Norm(8, 0)) THEN 2
    ELSE IF FLt(incident_energy, Norm(25, 0)) THEN 3
    ELSE 4

\* Mutant: the boundary is solved for 4 cal/cm2 instead of 1.2.
calculate_arc_flash_boundary_at_4(e, arcing_current) ==
    LET cf == enclosure_factors[e.enclosure_type]
        numerator   == FMul(FMul(FMul(Norm(4184, -3), cf), arcing_current), Seconds(e))
        denominator == FMul(FMul(Norm(4, 0), Norm(3142, -3)), Norm(4, 0))
    IN  FSqrt(FDiv(numerator, denominator))

calculate_arc_flash_boundary(e, arcing_current) ==
    LET cf == enclosure_factors[e.enclosure_type]
        numerator   == FMul(FMul(FMul(Norm(4184, -3), cf), arcing_current), Seconds(e))
        denominator == FMul(FMul(Norm(4, 0), Norm(3142, -3)), Norm(12, -1))
    IN  FSqrt(FDiv(numerator, denominator))

ClearingTimeWarning == "Clearing time > 0.5s may indicate inadequate protection"
IncidentEnergyWarning == "Incident energy > 40 cal/cm2 - consider additional protection"

\* Mutant: a clearing time of exactly 0.5 s already warns.
Warnings_inclusive(e, incident_energy) ==
    (IF e.fault_clearing_time >= 5000 THEN <<ClearingTimeWarning>> ELSE <<>>)
    \o (IF FLt(Norm(40, 0), incident_energy) THEN <<IncidentEnergyWarning>> ELSE <<>>)

Warnings(e, incident_energy) ==
    (IF e.fault_clearing_time > 5000 THEN <<ClearingTimeWarning>> ELSE <<>>)
    \o (IF FLt(Norm(40, 0), incident_energy) THEN <<IncidentEnergyWarning>> ELSE <<>>)

\* Mutant: the values are rounded first and the later steps read the rounded ones.
calculate_rounded_first(e) ==
    IF e.bolted_fault_current <= 0 THEN [exception |-> "ValueError"]
    ELSE IF e.working_distance = 0 THEN [exception |-> "ZeroDivisionError"]
    ELSE
      LET arcing_current  == FRound(calculate_arcing_current(e), 0)
          incident_energy == FRound(calculate_incident_energy(e, arcing_current), 2)
          boundary        == FRound(calculate_arc_flash_boundary(e, arcing_current), 1)
      IN  [equipment_name     |-> e.name,
           incident_energy    |-> incident_energy,
           arc_flash_boundary |-> boundary,
           ppe_category       |-> determine_ppe_category(incident_energy),
           arcing_current     |-> arcing_current,
           arc_duration       |-> e.fault_clearing_time,
           correction_factor  |-> enclosure_factors[e.enclosure_type],
           warnings           |-> Warnings(e, incident_energy)]

\* calculator.calculate(equipment): the CalculationResult, or the exception raised.
calculate(e) ==
    IF e.bolted_fault_current <= 0 THEN [exception |-> "ValueError"]
    ELSE IF e.working_distance = 0 THEN [exception |-> "ZeroDivisionError"]
    ELSE
      LET arcing_current  == calculate_arcing_current(e)
          incident_energy == calculate_incident_energy(e, arcing_current)
          boundary        == calculate_arc_flash_boundary(e, arcing_current)
      IN  [equipment_name     |-> e.name,
           incident_energy    |-> FRound(incident_energy, 2),
           arc_flash_boundary |-> FRound(boundary, 1),
           ppe_category       |-> determine_ppe_category(incident_energy),
           arcing_current     |-> FRound(arcing_current, 0),
           arc_duration       |-> e.fault_clearing_time,
           correction_factor  |-> enclosure_factors[e.enclosure_type],
           warnings           |-> Warnings(e, incident_energy)]

Raised(x) == "exception" \in DOMAIN x

(* ------------------------------------------------------------------ *)
(* The detailed endpoint: calculate_arc_flash_detailed                *)
(* ------------------------------------------------------------------ *)

_get_ppe_description(category) ==
    CASE category = 0 -> "Non-melting or untreated natural fiber shirt and pants"
      [] category = 1 -> "FR shirt and pants (4 cal/cm2)"
      [] category = 2 -> "FR shirt and pants + FR coverall (8 cal/cm2)"
      [] category = 3 -> "FR shirt and pants + FR coverall + FR jacket (25 cal/cm2)"
      [] category = 4 -> "FR shirt and pants + multilayer flash suit (40+ cal/cm2)"
      [] OTHER        -> "Unknown category"

HTTPException == [exception |-> "HTTPException", status_code |-> 500]

\* Mutant: a boundary equal to the working distance counts as within the safe zone.
calculation_steps_inclusive(e, result) ==
    LET lg_ibf == Log10(Amperes(e))
    IN  [status     |-> IF 208 <= e.voltage /\ e.voltage <= 15000
                        THEN "Valid" ELSE "Out of range",
         K          |-> IF e.enclosure_type \in {"VCB", "VCBB", "HCB"} THEN -1530 ELSE -970,
         lg_Ibf     |-> lg_ibf,
         term_2     |-> RoundDiv(662 * lg_ibf, 1000),
         term_3     |-> RoundDiv(966 * e.voltage, 1000),
         term_4     |-> RoundDiv(526 * e.electrode_gap, 100),
         term_5     |-> MulFix(RoundDiv(5588 * e.voltage, 1000), lg_ibf),
         term_6     |-> 0 - MulFix(RoundDiv(304 * e.electrode_gap, 10), lg_ibf),
         lg_Ia      |-> Log10(result.arcing_current),
         Ia         |-> result.arcing_current,
         Cf         |-> enclosure_factors[e.enclosure_type],
         E          |-> result.incident_energy,
         category   |-> result.ppe_category,
         description |-> _get_ppe_description(result.ppe_category),
         AFB        |-> result.arc_flash_boundary,
         comparison_to_working_distance |->
             IF FLe(result.arc_flash_boundary, Inches(e))
             THEN "Within safe zone"
             ELSE "Exceeds working distance - hazard present"]

\* The trace built from the result; result.arcing_current > 0.
calculation_steps(e, result) ==
    LET lg_ibf == Log10(Amperes(e))
    IN  [status     |-> IF 208 <= e.voltage /\ e.voltage <= 15000
                        THEN "Valid" ELSE "Out of range",
         K          |-> IF e.enclosure_type \in {"VCB", "VCBB", "HCB"} THEN -1530 ELSE -970,
         lg_Ibf     |-> lg_ibf,
         term_2     |-> RoundDiv(662 * lg_ibf, 1000),
         term_3     |-> RoundDiv(966 * e.voltage, 1000),
         term_4     |-> RoundDiv(526 * e.electrode_gap, 100),
         term_5     |-> MulFix(RoundDiv(5588 * e.voltage, 1000), lg_ibf),
         term_6     |-> 0 - MulFix(RoundDiv(304 * e.electrode_gap, 10), lg_ibf),
         lg_Ia      |-> Log10(result.arcing_current),
         Ia         |-> result.arcing_current,
         Cf         |-> enclosure_factors[e.enclosure_type],
         E          |-> result.incident_energy,
         category   |-> result.ppe_category,
         description |-> _get_ppe_description(result.ppe_category),
         AFB        |-> result.arc_flash_boundary,
         comparison_to_working_distance |->
             IF FLt(result.arc_flash_boundary, Inches(e))
             THEN "Within safe zone"
             ELSE "Exceeds working distance - hazard present"]

\* Mutant: the result sub-record carries the energy before rounding.
calculate_arc_flash_detailed_rederived(e) ==
    LET result == calculate(e)
        shown  == IF Raised(result) THEN result
                  ELSE [result EXCEPT !.incident_energy =
                           calculate_incident_energy(e, calculate_arcing_current(e))]
    IN  IF Raised(result) THEN HTTPException
        ELSE IF result.arcing_current.m = 0 THEN HTTPException
        ELSE [result |-> shown, calculation_steps |-> calculation_steps(e, result)]

\* The DetailedCalculation returned, or the HTTPException raised by the handler.
calculate_arc_flash_detailed(e) ==
    LET result == calculate(e)
    IN  IF Raised(result) THEN HTTPException
        ELSE IF result.arcing_current.m = 0 THEN HTTPException
        ELSE [result |-> result, calculation_steps |-> calculation_steps(e, result)]

(* ------------------------------------------------------------------ *)
(* Bounds and inputs                                                  *)
(* ------------------------------------------------------------------ *)

\* Attribute assignments followed on one instance.
MaxAssign == 1

\* Energies are drawn as n * 10^x for n in 0..MaxEnergy.
MaxEnergy == 300

Name(n) == [i \in 1..n |-> "x"]

Sample ==
    [name |-> <<"S", "W", "B">>, voltage |-> 480, bolted_fault_current |-> 4000000,
     working_distance |-> 2400, enclosure_type |-> "VCB", electrode_gap |-> 32,
     fault_clearing_time |-> 500, grounding |-> "solidly_grounded"]

\* The keyword arguments with which callers construct an EquipmentInput.
Requests ==
    { Sample,
      [Sample EXCEPT !.voltage = 120, !.bolted_fault_current = 500000,
                     !.working_distance = 1800, !.electrode_gap = 25,
                     !.fault_clearing_time = 1000],
      [Sample EXCEPT !.bolted_fault_current = 6500000, !.working_distance = 1800,
                     !.fault_clearing_time = 3000],
      [Sample EXCEPT !.voltage = -480],
      [Sample EXCEPT !.bolted_fault_current = 0],
      [Sample EXCEPT !.fault_clearing_time = 15000],
      [Sample EXCEPT !.voltage = 208, !.bolted_fault_current = 1, !.electrode_gap = 1],
      [Sample EXCEPT !.voltage = 4160, !.working_distance = 3600,
                     !.electrode_gap = 104, !.fault_clearing_time = 2000],
      [Sample EXCEPT !.name = Name(100), !.voltage = 15000,
                     !.bolted_fault_current = 10600000, !.working_distance = 12000,
                     !.enclosure_type = "HOA", !.electrode_gap = 200,
                     !.fault_clearing_time = 20000, !.grounding = "ungrounded"],
      \* energies next to a category threshold: below 4, below 1.2, just above 1.2
      [Sample EXCEPT !.working_distance = 1800, !.fault_clearing_time = 7026],
      [Sample EXCEPT !.working_distance = 1800, !.fault_clearing_time = 2106],
      [Sample EXCEPT !.working_distance = 1911, !.fault_clearing_time = 2378],
      \* a working distance that is not a multiple of 0.1 in
      [Sample EXCEPT !.bolted_fault_current = 2656900, !.working_distance = 104,
                     !.fault_clearing_time = 10],
      \* an arcing current between 1 A and 2 A
      [Sample EXCEPT !.bolted_fault_current = 192] }

\* The values callers assign to a field of an instance they hold.
AssignValues(f) ==
    CASE f = "name" -> {<<"M", "C", "C">>}
      [] f = "voltage" -> {120}
      [] f = "bolted_fault_current" -> {0}
      [] f = "working_distance" -> {12000}
      [] f = "enclosure_type" -> EnclosureType
      [] f = "electrode_gap" -> {200}
      [] f = "fault_clearing_time" -> {501, 5000, 5001}
      [] f = "grounding" -> GroundingType

\* The keyword arguments of the validation check: each limit and its neighbours.
RawInputs ==
    [name : {Name(0), Name(1), Name(100), Name(101)},
     voltage : {0, 207, 208, 15000, 15001},
     bolted_fault_current : {0, 10600000, 10600001},
     working_distance : {0, 12000, 12001},
     enclosure_type : {"VCB"},
     electrode_gap : {0, 200, 201},
     fault_clearing_time : {0, 20000, 20001},
     grounding : {"solidly_grounded"}]

\* The incident energies handed to determine_ppe_category directly.
Energies == {Norm(n, x) : n \in 0..MaxEnergy, x \in -3..0}

Init ==
    /\ enclosure_factors = ENCLOSURE_FACTORS
    /\ equipment = None
    /\ assigns = 0
    /\ last = None
    /\ prev = None
    /\ first = None

(* ------------------------------------------------------------------ *)
(* Operations                                                         *)
(* ------------------------------------------------------------------ *)

\* EquipmentInput(**raw): the validated instance, or the ValidationError raised.
EquipmentInput(raw) ==
    LET errors == ValidationErrors(raw)
    IN  IF errors = {} THEN raw
        ELSE [exception |-> "ValidationError", fields |-> errors]

\* A caller constructs an instance; what it kept of earlier calls is dropped.
Construct(raw) ==
    LET instance == EquipmentInput(raw)
    IN  /\ equipment' = IF Raised(instance) THEN None ELSE instance
        /\ assigns' = 0
        /\ last' = [op |-> "EquipmentInput", request |-> raw, response |-> instance]
        /\ prev' = None
        /\ first' = None
        /\ UNCHANGED enclosure_factors

\* equipment.f = v: the model config sets neither frozen nor validate_assignment.
Assign(f, v) ==
    /\ equipment # None
    /\ assigns < MaxAssign
    /\ equipment' = [equipment EXCEPT ![f] = v]
    /\ assigns' = assigns + 1
    /\ UNCHANGED <<enclosure_factors, last, prev, first>>

Kept == IF last # None /\ last.op # "EquipmentInput" THEN last ELSE prev

\* Mutant: the call overwrites the factor it used with the default 1.0.
Calculate_mutating ==
    /\ equipment # None
    /\ last' = [op |-> "calculate", request |-> equipment, response |-> calculate(equipment)]
    /\ prev' = Kept
    /\ first' = IF first = None THEN last' ELSE first
    /\ enclosure_factors' =
           [enclosure_factors EXCEPT ![equipment.enclosure_type] = Norm(1000, -3)]
    /\ UNCHANGED <<equipment, assigns>>

\* calculator.calculate(equipment)
Calculate ==
    /\ equipment # None
    /\ last' = [op |-> "calculate", request |-> equipment, response |-> calculate(equipment)]
    /\ prev' = Kept
    /\ first' = IF first = None THEN last' ELSE first
    /\ UNCHANGED <<enclosure_factors, equipment, assigns>>

\* POST /api/v1/calculate/detailed with the instance as body
CalculateDetailed ==
    /\ equipment # None
    /\ last' = [op |-> "calculate_detailed", request |-> equipment,
                response |-> calculate_arc_flash_detailed(equipment)]
    /\ prev' = Kept
    /\ UNCHANGED <<enclosure_factors, equipment, assigns, first>>

\* calculator.determine_ppe_category(E), called on its own
DeterminePPE(E) ==
    /\ last' = [op |-> "determine_ppe_category", request |-> E,
                response |-> determine_ppe_category(E)]
    /\ UNCHANGED <<enclosure_factors, equipment, assigns, prev, first>>

Next ==
    \/ \E raw \in Requests : Construct(raw)
    \/ \E f \in DOMAIN Sample : \E v \in AssignValues(f) : Assign(f, v)
    \/ Calculate
    \/ CalculateDetailed

Spec == Init /\ [][Next]_vars

\* Construction alone, over every combination of the limits.
NextValidation == \E raw \in RawInputs : Construct(raw)

SpecValidation == Init /\ [][NextValidation]_vars

\* The category lookup alone, over the energies.
NextPPE == \E E \in Energies : DeterminePPE(E)

SpecPPE == Init /\ [][NextPPE]_vars

(* ------------------------------------------------------------------ *)
(* Properties                                                         *)
(* ------------------------------------------------------------------ *)

IsCall(c, op) == c # None /\ c.op = op

Valid(e) == ValidationErrors(e) = {}

\* A call of calculate on a valid record.
ValidCalculate(c) == IsCall(c, "calculate") /\ Valid(c.request)

\* Two records that differ in field f and in no other.
DifferOnlyIn(a, b, f) == a[f] # b[f] /\ \A g \in DOMAIN a \ {f} : a[g] = b[g]

\* The full-precision values inside calculate.
FullEnergy(e) == calculate_incident_energy(e, calculate_arcing_current(e))
FullBoundary(e) == calculate_arc_flash_boundary(e, calculate_arcing_current(e))

\* An energy drawn as n * 10^x, x >= -3, in thousandths of a cal/cm2.
Thousandths(E) ==
    IF E.e >= -3 THEN E.m * 10^(E.e + 3) ELSE E.m \div 10^(0 - 3 - E.e)

WithinDeclaredConstraints(raw) ==
    /\ Len(raw.name) \in 1..100
    /\ raw.voltage >= 208 /\ raw.voltage <= 15000
    /\ raw.bolted_fault_current > 0 /\ raw.bolted_fault_current <= 106000 * 100
    /\ raw.working_distance > 0 /\ raw.working_distance <= 120 * 100
    /\ raw.electrode_gap > 0 /\ raw.electrode_gap <= 200
    /\ raw.fault_clearing_time > 0 /\ raw.fault_clearing_time <= 2 * 10000

\* C2: constructing an EquipmentInput raises a validation error exactly when
\* some field is outside its declared constraint, and otherwise yields the
\* record; every voltage below 208 is rejected whatever the other fields are.
C2_ValidationExact ==
    IsCall(last, "EquipmentInput") =>
        /\ Raised(last.response) = ~WithinDeclaredConstraints(last.request)
        /\ ~Raised(last.response) => last.response = last.request /\ equipment = last.request
        /\ Raised(last.response) => equipment = None
        /\ last.request.voltage < 208 =>
               Raised(last.response) /\ "voltage" \in last.response.fields

\* The limits 208 (elsewhere 15000), 106000, 120, 200, 2.0 and 100 are accepted.
C2_Witness ==
    /\ IsCall(last, "EquipmentInput")
    /\ last.request.voltage = 208
    /\ last.request.bolted_fault_current = 10600000
    /\ last.request.working_distance = 12000
    /\ last.request.electrode_gap = 200
    /\ last.request.fault_clearing_time = 20000
    /\ Len(last.request.name) = 100
    /\ equipment = last.request

\* C3: the record passed to calculate or calculate_detailed always satisfies
\* every constraint of the data model.
C3_EngineNeverObservesInvalid ==
    (IsCall(last, "calculate") \/ IsCall(last, "calculate_detailed")) =>
        Valid(last.request)

\* C4: for a valid record the arcing current, at full precision and as
\* returned, is below the bolted fault current.
C4_ArcingBelowBolted ==
    ValidCalculate(last) =>
        /\ ~Raised(last.response)
        /\ FLt(calculate_arcing_current(last.request), Amperes(last.request))
        /\ FLt(last.response.arcing_current, Amperes(last.request))

C6_DetailedReturnsWhenCalculateDoes ==
    (/\ IsCall(last, "calculate_detailed")
     /\ Valid(last.request)
     /\ ~Raised(calculate(last.request)))
        => ~Raised(last.response)

Pair(f) ==
    /\ ValidCalculate(prev)
    /\ ValidCalculate(last)
    /\ ~Raised(prev.response)
    /\ ~Raised(last.response)
    /\ DifferOnlyIn(prev.request, last.request, f)

C10_Warnings ==
    (ValidCalculate(last) /\ ~Raised(last.response)) =>
        LET w == last.response.warnings
            slow == last.request.fault_clearing_time * 2 > 10000
            high == FLt(Norm(40, 0), FullEnergy(last.request))
            Has(msg) == \E i \in DOMAIN w : w[i] = msg
        IN  /\ Has(ClearingTimeWarning) = slow
            /\ Has(IncidentEnergyWarning) = high
            /\ Len(w) = (IF slow THEN 1 ELSE 0) + (IF high THEN 1 ELSE 0)
            /\ (slow /\ high) => w[1] = ClearingTimeWarning
            /\ (w = <<>>) = (~slow /\ ~high)

C10_Witness ==
    /\ ValidCalculate(last)
    /\ ~Raised(last.response)
    /\ last.response.warnings = <<ClearingTimeWarning, IncidentEnergyWarning>>

\* C11: calculate rounds only when it builds the result: ppe_category and the
\* energy warning are determined from the unrounded incident energy, the
\* boundary from the unrounded arcing current, and the returned
\* incident_energy, arc_flash_boundary and arcing_current are the
\* full-precision values rounded to 2, 1 and 0 decimals; an energy just below
\* a threshold that is shown as the threshold keeps the lower band's category.
C11_RoundingOnlyAtResult ==
    (ValidCalculate(last) /\ ~Raised(last.response)) =>
        LET e  == last.request
            r  == last.response
            Ia == calculate_arcing_current(e)
            E  == calculate_incident_energy(e, Ia)
            B  == calculate_arc_flash_boundary(e, Ia)
            Has(msg) == \E i \in DOMAIN r.warnings : r.warnings[i] = msg
        IN  /\ r.arcing_current = FRound(Ia, 0)
            /\ r.incident_energy = FRound(E, 2)
            /\ r.arc_flash_boundary = FRound(B, 1)
            /\ FLt(E, Norm(12, -1)) => r.ppe_category = 0
            /\ (FLe(Norm(12, -1), E) /\ FLt(E, Norm(4, 0))) => r.ppe_category = 1
            /\ (FLe(Norm(4, 0), E) /\ FLt(E, Norm(8, 0))) => r.ppe_category = 2
            /\ (FLe(Norm(8, 0), E) /\ FLt(E, Norm(25, 0))) => r.ppe_category = 3
            /\ FLe(Norm(25, 0), E) => r.ppe_category = 4
            /\ Has(IncidentEnergyWarning) = FLt(Norm(40, 0), E)

\* An energy below 4 that is returned as 4.00 with category 1.
C11_Witness ==
    /\ ValidCalculate(last)
    /\ ~Raised(last.response)
    /\ FLt(FullEnergy(last.request), Norm(4, 0))
    /\ last.response.incident_energy = Norm(4, 0)
    /\ last.response.ppe_category = 1

EngineCallStep ==
    /\ last' # None
    /\ last'.op \in {"calculate", "calculate_detailed"}
    /\ <<last, prev>>' # <<last, prev>>

\* C14: no call mutates shared state or its input: the enclosure-factor
\* table always holds its initial values and every trace's description is
\* the entry of the description table; a call of calculate or
\* calculate_detailed leaves the EquipmentInput it is given unchanged; and a
\* call returns what the earlier calls of the same operation on an equal
\* record returned, whatever calls and assignments happened in between.
C14_NoSharedMutation ==
    /\ [](enclosure_factors = ENCLOSURE_FACTORS)
    /\ []((IsCall(last, "calculate_detailed") /\ ~Raised(last.response)) =>
             last.response.calculation_steps.description
                 = _get_ppe_description(last.response.result.ppe_category))
    /\ [][EngineCallStep =>
             /\ equipment' = equipment
             /\ last'.request = equipment
             /\ \A c \in {first, prev, last} :
                    (c # None /\ c.op = last'.op /\ c.request = last'.request) =>
                        c.response = last'.response]_vars

\* calculate, then calculate_detailed, then calculate again on an equal record.
C14_Witness ==
    /\ IsCall(last, "calculate")
    /\ IsCall(prev, "calculate_detailed")
    /\ IsCall(first, "calculate")
    /\ first.request = last.request
    /\ first.response = last.response
    /\ equipment = last.request
    /\ enclosure_factors["HCB"] = Norm(1056, -3)

\* x < n / 100 for a float x and a count n of hundredths, in integers.
BelowHundredths(x, n) ==
    IF x.m = 0 THEN n > 0
    ELSE IF x.e + 2 >= 2 THEN FALSE
    ELSE IF x.e + 2 >= 0 THEN x.m * 10^(x.e + 2) < n
    ELSE IF 0 - (x.e + 2) > 5 THEN n > 0
    ELSE x.m < n * 10^(0 - (x.e + 2))

\* C15: in the trace of calculate_detailed the comparison is "Within safe
\* zone" exactly when the arc_flash_boundary reported in the result is less
\* than the working_distance, and "Exceeds working distance - hazard
\* present" otherwise, also when the two are equal; the AFB of the trace is
\* the reported boundary.
C15_ComparisonUsesReportedBoundary ==
    (IsCall(last, "calculate_detailed") /\ ~Raised(last.response)) =>
        LET steps == last.response.calculation_steps
            below == BelowHundredths(last.response.result.arc_flash_boundary,
                                     last.request.working_distance)
        IN  /\ steps.AFB = last.response.result.arc_flash_boundary
            /\ steps.comparison_to_working_distance \in
                   {"Within safe zone", "Exceeds working distance - hazard present"}
            /\ (steps.comparison_to_working_distance = "Within safe zone") = below

\* A reported boundary equal to the working distance: "Exceeds".
C15_Witness ==
    /\ IsCall(last, "calculate_detailed")
    /\ ~Raised(last.response)
    /\ Valid(last.request)
    /\ last.response.result.arc_flash_boundary = Inches(last.request)
    /\ last.response.calculation_steps.comparison_to_working_distance
           = "Exceeds working distance - hazard present"

\* C16: the arcing-current derivation of the trace agrees with the engine:
\* the reported K is the K the engine uses for the enclosure type, and the
\* reported lg_Ia is the engine's lg(Ia) = K + term_2 + ... + term_6 to four
\* decimals (here to within 5/10000, the resolution of a four-digit
\* mantissa).
C16_TraceAgreesWithEngine ==
    (IsCall(last, "calculate_detailed") /\ Valid(last.request)
     /\ ~Raised(last.response)) =>
        LET steps  == last.response.calculation_steps
            engine == lg_ia(last.request)
        IN  /\ steps.K = KConstant(last.request)
            /\ engine = steps.K + steps.term_2 + steps.term_3 + steps.term_4
                           + steps.term_5 + steps.term_6
            /\ steps.lg_Ia - engine <= 5
            /\ engine - steps.lg_Ia <= 5

\* C17: the result of calculate does not depend on grounding, and depends on
\* name only through equipment_name: two valid records that differ only in
\* grounding give equal results, and two that differ only in name give
\* results equal in every field but equipment_name, which is the record's name.
C17_GroundingAndNameIrrelevant ==
    /\ Pair("grounding") => prev.response = last.response
    /\ Pair("name") =>
           /\ \A f \in DOMAIN last.response \ {"equipment_name"} :
                  prev.response[f] = last.response[f]
           /\ prev.response.equipment_name = prev.request.name
           /\ last.response.equipment_name = last.request.name
           /\ prev.response.equipment_name # last.response.equipment_name
    /\ (ValidCalculate(last) /\ ~Raised(last.response)) =>
           last.response.equipment_name = last.request.name

\* The same record solidly grounded and then ungrounded, with equal results.
C17_Witness ==
    /\ Pair("grounding")
    /\ prev.request.grounding = "solidly_grounded"
    /\ last.request.grounding = "ungrounded"
    /\ prev.response = last.response
    /\ FLt(Zero, last.response.incident_energy)

\* C18: the hazard indications of one detailed response agree: when the
\* comparison of the trace says "Within safe zone" the reported ppe_category
\* is 0, and when ppe_category >= 1 the comparison says "Exceeds working
\* distance - hazard present".
C18_HazardIndicationsAgree ==
    (IsCall(last, "calculate_detailed") /\ Valid(last.request)
     /\ ~Raised(last.response)) =>
        LET comparison == last.response.calculation_steps.comparison_to_working_distance
            category   == last.response.result.ppe_category
        IN  /\ comparison = "Within safe zone" => category = 0
            /\ category >= 1 =>
                   comparison = "Exceeds working distance - hazard present"

====
